---- MODULE Spec2Model ----
(***************************************************************************)
(* Model of mpytools/io.py: FileStack (default partitions, fileslices,    *)
(* cslice, concatenate, read, write) and BaseFile._read_header.            *)
(*                                                                         *)
(* Workers are the MPI ranks 0..nproc-1.  A row is identified by a natural *)
(* number (its value in the column that is read), so that the order and    *)
(* the origin of every row that is read or written is observable.          *)
(*                                                                         *)
(* A Slice (mpytools.array.Slice) is modelled by the record                *)
(*   [arr |-> is_array, step |-> idx.step (0 if is_array),                 *)
(*    idx |-> the positions it enumerates, in order]                       *)
(* A python slice is determined by its start, its step and its length, so  *)
(* a range keeps exactly that; an index array keeps its elements.          *)
(***************************************************************************)
EXTENDS Integers, Sequences, FiniteSets, TLC

(***************************************************************************)
(* Bounds of the model.                                                    *)
(***************************************************************************)
MaxProc == 3

MaxFileSize == 2

MaxOps == 2

MaxContrib == 2

MaxWriteFiles == 2

MaxHeaderFiles == 2

MaxStackFiles == 2

MaxOtherFiles == 2

(***************************************************************************)
(* Sequence helpers (numpy / python list primitives).                      *)
(***************************************************************************)
Min2(a, b) == IF a <= b THEN a ELSE b

Max2(a, b) == IF a >= b THEN a ELSE b

Clamp(x, lo, hi) == Max2(lo, Min2(x, hi))

RECURSIVE SumSeq(_)
SumSeq(s) == IF s = << >> THEN 0 ELSE Head(s) + SumSeq(Tail(s))

RECURSIVE Flatten(_)
Flatten(ss) == IF ss = << >> THEN << >> ELSE Head(ss) \o Flatten(Tail(ss))

Reverse(s) == [k \in 1..Len(s) |-> s[Len(s) + 1 - k]]

\* np.cumsum([first] + sizes): sequence of length Len(sizes) + 1
CumSum(first, sizes) == [k \in 1..(Len(sizes) + 1) |-> first + SumSeq(SubSeq(sizes, 1, k - 1))]

\* the increasing sequence of the positions 1..n
Positions(n) == [k \in 1..n |-> k]

\* np.argsort(s), 1-based: ArgSort(s)[k] is the position in s of the k-th smallest
ArgSort(s) ==
    [k \in 1..Len(s) |->
        CHOOSE j \in 1..Len(s) :
            Cardinality({i \in 1..Len(s) : s[i] < s[j] \/ (s[i] = s[j] /\ i < j)}) = k - 1]

\* python's a // b for b > 0
FloorDiv(a, b) == a \div b

(***************************************************************************)
(* mpytools.array.Slice: the algebra of worker partitions.                 *)
(***************************************************************************)
\* Slice(slice(start, start + n * step, step))
MkRange(start, step, n) ==
    [arr |-> FALSE, step |-> step, idx |-> [k \in 1..n |-> start + (k - 1) * step]]

\* Slice(np.array(seq))
MkArray(seq) == [arr |-> TRUE, step |-> 0, idx |-> seq]

\* Slice.size
SliceSize(sl) == Len(sl.idx)

\* Slice.__bool__: a slice is true when it selects at least one position
NonEmpty(sl) == Len(sl.idx) > 0

\* Slice.idx.start of a non-empty range
SliceStart(sl) == sl.idx[1]

\* Slice.to_array()
ToArray(sl) == sl.idx

\* number of elements of range(lo, hi, step), step # 0
RangeLen(lo, hi, step) ==
    IF step > 0
    THEN (IF hi > lo THEN (hi - lo + step - 1) \div step ELSE 0)
    ELSE (IF lo > hi THEN (lo - hi + (0 - step) - 1) \div (0 - step) ELSE 0)

\* Slice(start, stop, step, size=size): bounds clamped into the address space
\* [0, size); with a negative step the stop -1 stands for "down to position 0"
MakeSlice(start, stop, step, size) ==
    IF step > 0
    THEN LET lo == Clamp(start, 0, size)
             hi == Clamp(stop, 0, size)
         IN  MkRange(lo, step, RangeLen(lo, hi, step))
    ELSE LET lo == Clamp(start, 0 - 1, size - 1)
             hi == Clamp(stop, 0 - 1, size - 1)
         IN  MkRange(lo, step, RangeLen(lo, hi, step))

\* a slice holding the positions seq, as a range of step `step` when asrange
FromPositions(seq, asarray, step) ==
    IF asarray THEN MkArray(seq)
    ELSE [arr |-> FALSE,
          step |-> (IF Len(seq) >= 2 THEN seq[2] - seq[1] ELSE step),
          idx |-> seq]

\* Slice.split(nsplits)[isplit], isplit in 0..nsplits-1
Split(sl, nsplits, isplit) ==
    LET lo == FloorDiv(isplit * SliceSize(sl), nsplits)
        hi == FloorDiv((isplit + 1) * SliceSize(sl), nsplits)
    IN  [arr |-> sl.arr, step |-> sl.step, idx |-> SubSeq(sl.idx, lo + 1, hi)]

\* Slice.shift(offset)
Shift(sl, offset) ==
    [arr |-> sl.arr, step |-> sl.step, idx |-> [k \in 1..Len(sl.idx) |-> sl.idx[k] + offset]]

\* the offsets (0-based, increasing) in other's enumeration of the positions
\* of other that self holds
FindHits(self, other) ==
    SelectSeq(Positions(Len(other.idx)),
              LAMBDA k : \E j \in 1..Len(self.idx) : self.idx[j] = other.idx[k])

\* self.find(other, return_index=True): rows = the indices into self of the
\* positions that other selects too, in the order other enumerates them;
\* index = for each of them its offset in other's enumeration
Find(self, other) ==
    LET hits == FindHits(self, other)
        asarray == self.arr \/ other.arr
        rows == [h \in 1..Len(hits) |->
                    (CHOOSE j \in 1..Len(self.idx) : self.idx[j] = other.idx[hits[h]]) - 1]
        index == [h \in 1..Len(hits) |-> hits[h] - 1]
    IN  [rows |-> FromPositions(rows, asarray, other.step),
         index |-> FromPositions(index, asarray, 1)]

\* self.slice(sel): self restricted to the sub-selection sel, which is given
\* in self's own coordinates; the part of sel outside [0, self.size) is cut
SliceOf(self, sel) ==
    LET kept == SelectSeq(sel.idx, LAMBDA j : j >= 0 /\ j < Len(self.idx))
    IN  FromPositions([k \in 1..Len(kept) |-> self.idx[kept[k] + 1]],
                      self.arr \/ sel.arr, self.step * sel.step)

\* length of the longest arithmetic progression that starts seq
RECURSIVE RunLen(_, _)
RunLen(seq, n) ==
    IF n >= Len(seq) THEN Len(seq)
    ELSE IF n < 2 THEN RunLen(seq, n + 1)
    ELSE IF seq[n + 1] - seq[n] = seq[2] - seq[1] THEN RunLen(seq, n + 1)
    ELSE n

\* the minimal sequence of ranges that enumerates seq in order
RECURSIVE ToRanges(_, _)
ToRanges(seq, step) ==
    IF seq = << >> THEN << >>
    ELSE LET n == RunLen(seq, 1)
         IN  <<FromPositions(SubSeq(seq, 1, n), FALSE, step)>>
             \o ToRanges(SubSeq(seq, n + 1, Len(seq)), step)

\* Slice.snap(*pieces)
Snap(pieces) ==
    ToRanges(Flatten([k \in 1..Len(pieces) |-> pieces[k].idx]),
             IF pieces = << >> THEN 1 ELSE pieces[1].step)

(***************************************************************************)
(* mpytools.array.MPIScatteredSource: windows[r + 1] lists, for rank r, the *)
(* [start, stop) windows that its arrays fill in the address space of the   *)
(* source; arrays[r + 1] lists the arrays themselves.                       *)
(***************************************************************************)
\* MPIScatteredSource.get(arrays, target) on the rank that asks for target
ScatteredGet(windows, arrays, target) ==
    [k \in 1..Len(target.idx) |->
        LET t == target.idx[k]
            at == CHOOSE rc \in UNION {{<<r, c>> : c \in 1..Len(windows[r])} :
                                           r \in 1..Len(windows)} :
                      windows[rc[1]][rc[2]].start <= t /\ t < windows[rc[1]][rc[2]].stop
        IN  arrays[at[1]][at[2]][t - windows[at[1]][at[2]].start + 1]]

\* MPIScatteredSource.concatenate(first, second): the second source follows
\* the first one, its windows moved by the size of the first
ConcatSources(first, firstsize, second) ==
    [r \in 1..Len(first) |->
        first[r] \o [c \in 1..Len(second[r]) |->
                        [start |-> second[r][c].start + firstsize,
                         stop |-> second[r][c].stop + firstsize]]]

VARIABLES
    nproc,   \* mpicomm.size
    stack,   \* the FileStack the operations act on
    other,   \* a second FileStack, the right operand of concatenate
    last,    \* the last operation with the stacks it was called on
    out,     \* out[rank]: what the last read returned or raised on rank
    nops,    \* number of operations done
    data,    \* data[rank]: the rows rank passes to write
    hfiles,  \* the files whose header is read (BaseFile._read_header)
    pc,      \* pc[rank]: where rank is in the header resolution
    bcast,   \* bcast[f]: what the root has broadcast for file f
    mpiroot, \* the mpiroot argument of write: a rank, or -1 for None
    coldata, \* coldata[rank]: the column mapping rank passes to write
    calls    \* calls[rank]: the files whose write rank has called, in order

vars == <<nproc, stack, other, last, out, nops, data, hfiles, pc, bcast,
          mpiroot, coldata, calls>>

Ranks == 0..(nproc - 1)

(***************************************************************************)
(* FileStack.  A stack is [files, sl]: files[k] = [rows, hasX, csize] is    *)
(* the k-th file, with the rows it holds on disk, whether it has column "X" *)
(* (every file has column "Y") and its _csize attribute (the number of rows *)
(* of its header, or the number FileStack.write has set);                   *)
(* sl[rank] = [set, parts] is rank's _slices attribute: not set (None), or  *)
(* the list parts.                                                          *)
(***************************************************************************)
\* FileStack.filesizes
filesizes(st) == [k \in 1..Len(st.files) |-> st.files[k].csize]

\* FileStack.cfilesize
cfilesize(st) == SumSeq(filesizes(st))

\* DefaultSlices with every rank given floor(N / P) rows
DefaultSlicesNoRemainder(st, rank) ==
    LET lo == FloorDiv(rank * cfilesize(st), nproc)
        hi == lo + FloorDiv(cfilesize(st), nproc)
    IN  <<MkRange(lo, 1, hi - lo)>>

\* the list that FileStack.slices builds when _slices is None
DefaultSlices(st, rank) ==
    LET lo == FloorDiv(rank * cfilesize(st), nproc)
        hi == FloorDiv((rank + 1) * cfilesize(st), nproc)
    IN  <<MkRange(lo, 1, hi - lo)>>

\* FileStack.slices on rank
slices(st, rank) ==
    IF st.sl[rank].set THEN st.sl[rank].parts ELSE DefaultSlices(st, rank)

\* the stack once every rank has evaluated FileStack.slices (which caches it)
Memo(st) ==
    [st EXCEPT !.sl = [r \in Ranks |-> [set |-> TRUE, parts |-> slices(st, r)]]]

\* the window [start, stop) of file ifile in the rows of the stack
FileWindow(st, ifile) ==
    LET cumsizes == CumSum(0, filesizes(st))
    IN  MkRange(cumsizes[ifile], 1, cumsizes[ifile + 1] - cumsizes[ifile])

\* FileStack.fileslices(return_index=True) on rank: for each slice of rank,
\* for each file, the rows of the file and their offsets in the slice
fileslices(st, rank) ==
    [i \in 1..Len(slices(st, rank)) |->
        [f \in 1..Len(st.files) |-> Find(FileWindow(st, f), slices(st, rank)[i])]]

\* FileStack.size on rank
size(st, rank) ==
    SumSeq([i \in 1..Len(slices(st, rank)) |-> SliceSize(slices(st, rank)[i])])

\* mpicomm.allgather(self.size)
AllSizes(st) == [k \in 1..nproc |-> size(st, k - 1)]

\* FileStack.csize
csize(st) == SumSeq(AllSizes(st))

\* FileStack._is_slice_array
IsSliceArray(st) ==
    \E r \in Ranks : \E i \in 1..Len(slices(st, r)) : slices(st, r)[i].arr

\* utils.list_concatenate(mpicomm.allgather(self.slices))
AllSlices(st) == Flatten([k \in 1..nproc |-> slices(st, k - 1)])

\* the windows of rank's slices in the rows of the stack as currently split:
\* zip(cumsizes[:-1], cumsizes[1:]) of FileStack.cslice and concatenate
RankWindows(st, rank) ==
    LET sls == slices(st, rank)
        cumsizes == CumSum(SumSeq(SubSeq(AllSizes(st), 1, rank)),
                           [i \in 1..Len(sls) |-> SliceSize(sls[i])])
    IN  [i \in 1..Len(sls) |-> [start |-> cumsizes[i], stop |-> cumsizes[i + 1]]]

\* [sl.to_array() for sl in self._slices] on rank
RankArrays(st, rank) ==
    [i \in 1..Len(slices(st, rank)) |-> ToArray(slices(st, rank)[i])]

\* Slice(*args, size=self.csize) for the arguments req of cslice
GlobalSlice(st, req) ==
    IF req.arr THEN MkArray(req.idx)
    ELSE MakeSlice(req.start, req.stop, req.step, csize(st))

\* CsliceArrayPath decided by the request alone
CsliceArrayPathRequestOnly(st, req, rank) ==
    Split(GlobalSlice(st, req), nproc, rank).arr

\* the branch of FileStack.cslice that rank takes
CsliceArrayPath(st, req, rank) ==
    Split(GlobalSlice(st, req), nproc, rank).arr \/ IsSliceArray(st)

\* the _slices of the stack that FileStack.cslice(*req) returns, on rank
CsliceParts(st, req, rank) ==
    LET local_slice == Split(GlobalSlice(st, req), nproc, rank)
    IN  IF CsliceArrayPath(st, req, rank)
        THEN <<MkArray(ScatteredGet([k \in 1..nproc |-> RankWindows(st, k - 1)],
                                    [k \in 1..nproc |-> RankArrays(st, k - 1)],
                                    local_slice))>>
        ELSE LET all_slices == AllSlices(st)
                 cumsize == CumSum(0, [i \in 1..Len(all_slices) |-> SliceSize(all_slices[i])])
                 pieces == [i \in 1..Len(all_slices) |->
                               SliceOf(all_slices[i], Shift(local_slice, 0 - cumsize[i]))]
                 kept == SelectSeq(pieces, NonEmpty)
             IN  Snap(IF local_slice.step < 0 THEN Reverse(kept) ELSE kept)

\* FileStack.cslice(*req)
cslice(st, req) ==
    [files |-> st.files,
     sl |-> [r \in Ranks |-> [set |-> TRUE, parts |-> CsliceParts(st, req, r)]]]

\* the branch of FileStack.concatenate(a, b) on rank: "default" when no input
\* has _slices, else "array" when an input holds an index array, else "range"
ConcatBranch(a, b, rank) ==
    IF ~(a.sl[rank].set \/ b.sl[rank].set) THEN "default"
    ELSE IF IsSliceArray(a) \/ IsSliceArray(b) THEN "array"
    ELSE "range"

\* array branch of concatenate: the _slices of the new stack on rank
ConcatArrayParts(a, b, rank) ==
    LET total == csize(a) + csize(b)
        lo == FloorDiv(rank * total, nproc)
        hi == FloorDiv((rank + 1) * total, nproc)
        new_slice == MkRange(lo, 1, hi - lo)
        source == ConcatSources([k \in 1..nproc |-> RankWindows(a, k - 1)], csize(a),
                                [k \in 1..nproc |-> RankWindows(b, k - 1)])
        arrays == [k \in 1..nproc |-> RankArrays(a, k - 1) \o RankArrays(b, k - 1)]
    IN  <<MkArray(ScatteredGet(source, arrays, new_slice))>>

\* range branch of concatenate: the new stack before it is balanced; rank 0
\* holds the slices of all ranks of a, then those of b moved by a.cfilesize
ConcatRangeStack(a, b) ==
    LET sa == AllSlices(a)
        sb == AllSlices(b)
        moved == [i \in 1..Len(sb) |-> Shift(sb[i], cfilesize(a))]
    IN  [files |-> a.files \o b.files,
         sl |-> [r \in Ranks |-> [set |-> TRUE,
                                  parts |-> IF r = 0 THEN sa \o moved ELSE << >>]]]

\* the request (start, stop, step) of cslice
RangeReq(start, stop, step) ==
    [arr |-> FALSE, start |-> start, stop |-> stop, step |-> step, idx |-> << >>]

\* the request of cslice with an index array
ArrayReq(idx) == [arr |-> TRUE, start |-> 0, stop |-> 0, step |-> 1, idx |-> idx]

\* concatenate without the cslice that balances the range branch
concatenateUnbalanced(a, b) ==
    [files |-> a.files \o b.files,
     sl |-> [r \in Ranks |->
                CASE ConcatBranch(a, b, r) = "default" -> [set |-> FALSE, parts |-> << >>]
                  [] ConcatBranch(a, b, r) = "array" ->
                         [set |-> TRUE, parts |-> ConcatArrayParts(a, b, r)]
                  [] OTHER -> ConcatRangeStack(a, b).sl[r]]]

\* FileStack.concatenate(a, b)
concatenate(a, b) ==
    LET balanced == cslice(ConcatRangeStack(a, b),
                           RangeReq(0, cfilesize(a) + cfilesize(b), 1))
    IN  [files |-> a.files \o b.files,
         sl |-> [r \in Ranks |->
                    CASE ConcatBranch(a, b, r) = "default" -> [set |-> FALSE, parts |-> << >>]
                      [] ConcatBranch(a, b, r) = "array" ->
                             [set |-> TRUE, parts |-> ConcatArrayParts(a, b, r)]
                      [] OTHER -> balanced.sl[r]]]

(***************************************************************************)
(* FileStack.read.  A read returns [err, rows]: err = "none" and the rows   *)
(* read, or the exception raised and no rows.                               *)
(***************************************************************************)
\* BaseFile.read(column, rows=rows): the rows of the file at the indices rows
FileRead(file, rows) == [k \in 1..Len(rows.idx) |-> file.rows[rows.idx[k] + 1]]

\* whether the file has the column
HasColumn(file, column) == column = "Y" \/ file.hasX

\* the files that slice islice of rank overlaps (rows is not empty)
UsedFiles(st, rank, islice) ==
    SelectSeq(Positions(Len(st.files)),
              LAMBDA f : NonEmpty(fileslices(st, rank)[islice][f].rows))

\* what one turn of the loop over the slices of rank adds to toret
ReadSlice(st, rank, islice) ==
    LET fs == fileslices(st, rank)[islice]
        used == UsedFiles(st, rank, islice)
        tmp == [u \in 1..Len(used) |-> FileRead(st.files[used[u]], fs[used[u]].rows)]
        idx == [u \in 1..Len(used) |-> fs[used[u]].index]
    IN  IF used = << >> THEN << >>
        ELSE IF slices(st, rank)[islice].arr
        THEN LET cat == Flatten(tmp)
                 order == ArgSort(Flatten([u \in 1..Len(used) |-> idx[u].idx]))
             IN  <<[k \in 1..Len(cat) |-> cat[order[k]]]>>
        ELSE LET order == ArgSort([u \in 1..Len(used) |-> SliceStart(idx[u])])
             IN  [k \in 1..Len(used) |-> tmp[order[k]]]

\* FileStack.read(column) on rank
read(st, rank, column) ==
    LET n == Len(slices(st, rank))
        toret == Flatten([i \in 1..n |-> ReadSlice(st, rank, i)])
    IN  IF \E i \in 1..n : \E u \in 1..Len(UsedFiles(st, rank, i)) :
               ~HasColumn(st.files[UsedFiles(st, rank, i)[u]], column)
        THEN [err |-> "KeyError", rows |-> << >>]
        ELSE IF toret = << >> THEN [err |-> "IndexError", rows |-> << >>]
        ELSE [err |-> "none", rows |-> Flatten(toret)]

(***************************************************************************)
(* FileStack.write(data, mpiroot=None), data[rank] being the rows of rank.  *)
(***************************************************************************)
\* python's seq[start:stop] (negative bounds count from the end)
PyGetSlice(seq, start, stop) ==
    LET n == Len(seq)
        lo == IF start < 0 THEN Max2(start + n, 0) ELSE Min2(start, n)
        hi == IF stop < 0 THEN Max2(stop + n, 0) ELSE Min2(stop, n)
    IN  SubSeq(seq, lo + 1, hi)

\* data[rows.idx] for a range rows of step 1
TakeRows(seq, rows) ==
    IF ~NonEmpty(rows) THEN << >>
    ELSE PyGetSlice(seq, rows.idx[1], rows.idx[Len(rows.idx)] + 1)

\* the files of the stack with the _csize that write sets from the row count
SizedFiles(st, total) ==
    LET nfiles == Len(st.files)
    IN  [k \in 1..nfiles |->
            [st.files[k] EXCEPT !.csize = FloorDiv(k * total, nfiles)
                                          - FloorDiv((k - 1) * total, nfiles)]]

\* what rank passes to the write of file ifile
WriteChunk(st, d, rank, ifile) ==
    LET total == SumSeq([k \in 1..nproc |-> Len(d[k - 1])])
        sized == [files |-> SizedFiles(st, total),
                  sl |-> [r \in Ranks |-> [set |-> FALSE, parts |-> << >>]]]
        fcumsizes == CumSum(0, filesizes(sized))
        cumsizes == CumSum(0, [k \in 1..nproc |-> Len(d[k - 1])])
        rows == fileslices(sized, rank)[1][ifile].rows
    IN  TakeRows(d[rank], Shift(rows, fcumsizes[ifile] - cumsizes[rank + 1]))

\* FileStack.write(d): every file holds what the ranks passed it, in rank order
write(st, d) ==
    LET total == SumSeq([k \in 1..nproc |-> Len(d[k - 1])])
        sized == SizedFiles(st, total)
    IN  [files |-> [k \in 1..Len(st.files) |->
                       [sized[k] EXCEPT !.rows =
                           Flatten([r \in 1..nproc |-> WriteChunk(st, d, r - 1, k)])]],
         sl |-> [r \in Ranks |->
                    [set |-> TRUE,
                     parts |-> DefaultSlices([files |-> sized, sl |-> st.sl], r)]]]

\* FileStack(*filenames) on the files that were written: the header of each
\* file gives the number of rows it holds
Reopen(st) ==
    [files |-> [k \in 1..Len(st.files) |->
                   [st.files[k] EXCEPT !.csize = Len(st.files[k].rows)]],
     sl |-> [r \in Ranks |-> [set |-> FALSE, parts |-> << >>]]]

(***************************************************************************)
(* Values of the variables an operation does not use.                       *)
(***************************************************************************)
NoOut == [col |-> "", res |-> [r \in Ranks |-> [err |-> "unread", rows |-> << >>]]]

NoData == [r \in Ranks |-> << >>]

NoPc == [r \in Ranks |-> [k |-> 0, at |-> "idle"]]

Unsliced == [r \in Ranks |-> [set |-> FALSE, parts |-> << >>]]

\* files of the given sizes whose rows are numbered base, base + 1, ... in
\* file order
MkFiles(sizes, hasX, base) ==
    [k \in 1..Len(sizes) |->
        [rows |-> [j \in 1..sizes[k] |-> base + SumSeq(SubSeq(sizes, 1, k - 1)) + j - 1],
         hasX |-> hasX[k],
         csize |-> sizes[k]]]

\* value of the first row of the stack `other`: beyond the rows of the stack
OtherBase == MaxStackFiles * MaxFileSize

FileSizes == UNION {[1..n -> 0..MaxFileSize] : n \in 1..MaxStackFiles}

\* a stack without files, for the specifications that use one stack only
NoStack == [files |-> << >>, sl |-> Unsliced]

\* the arguments cslice is called with on a stack of n rows
Requests(n) ==
    {RangeReq(0, n, 1), RangeReq(n - 1, 0 - 1, 0 - 1), RangeReq(0, n, 2), RangeReq(1, n, 1),
     ArrayReq([k \in 1..n |-> k - 1])}

(***************************************************************************)
(* Specification of reslicing and reading one stack: cslice, read.          *)
(* Any one file of the stack may lack column "X".                           *)
(***************************************************************************)
Init ==
    /\ nproc \in 1..MaxProc
    /\ \E sizes \in FileSizes : \E lacks \in 0..Len(sizes) :
           stack = [files |-> MkFiles(sizes, [k \in DOMAIN sizes |-> k # lacks], 0),
                    sl |-> Unsliced]
    /\ other = NoStack
    /\ last = [op |-> "init", req |-> RangeReq(0, 0, 1), pre |-> stack, oth |-> other]
    /\ out = NoOut
    /\ nops = 0
    /\ data = NoData
    /\ hfiles = << >>
    /\ pc = NoPc
    /\ bcast = << >>
    /\ mpiroot = 0 - 1
    /\ coldata = NoData
    /\ calls = NoData

\* new = stack.cslice(*req), the stack becoming new
Cslice ==
    /\ nops < MaxOps
    /\ \E req \in Requests(csize(stack)) :
           /\ stack' = cslice(stack, req)
           /\ last' = [op |-> "cslice", req |-> req, pre |-> stack, oth |-> other]
    /\ out' = NoOut
    /\ nops' = nops + 1
    /\ UNCHANGED <<nproc, other, data, hfiles, pc, bcast, mpiroot, coldata, calls>>

\* stack.read(column) on every rank
Read ==
    /\ out.col = ""
    /\ \E column \in {"X", "Y"} :
           out' = [col |-> column, res |-> [r \in Ranks |-> read(stack, r, column)]]
    /\ stack' = Memo(stack)
    /\ UNCHANGED <<nproc, other, last, nops, data, hfiles, pc, bcast, mpiroot, coldata, calls>>

Next == Cslice \/ Read

Spec == Init /\ [][Next]_vars

(***************************************************************************)
(* Specification of concatenation: each of two stacks is in any partition   *)
(* state (never resliced, slices evaluated, resliced), then concatenated,   *)
(* and the concatenation is read.                                           *)
(***************************************************************************)
InitConcat ==
    /\ nproc \in 1..MaxProc
    /\ \E sizes \in FileSizes :
           stack = [files |-> MkFiles(sizes, [k \in DOMAIN sizes |-> TRUE], 0),
                    sl |-> Unsliced]
    /\ \E sizes \in UNION {[1..n -> 0..MaxFileSize] : n \in 1..MaxOtherFiles} :
           other = [files |-> MkFiles(sizes, [k \in DOMAIN sizes |-> TRUE], OtherBase),
                    sl |-> Unsliced]
    /\ last = [op |-> "init", req |-> RangeReq(0, 0, 1), pre |-> stack, oth |-> other]
    /\ out = NoOut
    /\ nops = 0
    /\ data = NoData
    /\ hfiles = << >>
    /\ pc = NoPc
    /\ bcast = << >>
    /\ mpiroot = 0 - 1
    /\ coldata = NoData
    /\ calls = NoData

\* stack = stack.cslice(*req) on a stack not resliced yet
CsliceStack ==
    /\ last.op # "concatenate"
    /\ \A r \in Ranks : ~stack.sl[r].set
    /\ \E req \in Requests(csize(stack)) :
           /\ stack' = cslice(stack, req)
           /\ last' = [op |-> "cslice", req |-> req, pre |-> stack, oth |-> other]
    /\ UNCHANGED <<nproc, other, out, nops, data, hfiles, pc, bcast, mpiroot, coldata, calls>>

\* other = other.cslice(*req) on a stack not resliced yet
CsliceOther ==
    /\ last.op # "concatenate"
    /\ \A r \in Ranks : ~other.sl[r].set
    /\ \E req \in Requests(csize(other)) :
           /\ other' = cslice(other, req)
           /\ last' = [op |-> "cslice_other", req |-> req, pre |-> stack, oth |-> other]
    /\ UNCHANGED <<nproc, stack, out, nops, data, hfiles, pc, bcast, mpiroot, coldata, calls>>

\* stack.size evaluated on every rank: FileStack.slices caches the default
SizeStack ==
    /\ last.op # "concatenate"
    /\ \A r \in Ranks : ~stack.sl[r].set
    /\ stack' = Memo(stack)
    /\ last' = [op |-> "size", req |-> RangeReq(0, 0, 1), pre |-> stack, oth |-> other]
    /\ UNCHANGED <<nproc, other, out, nops, data, hfiles, pc, bcast, mpiroot, coldata, calls>>

\* new = FileStack.concatenate(stack, other), the stack becoming new
Concatenate ==
    /\ last.op # "concatenate"
    /\ stack' = concatenate(stack, other)
    /\ other' = IF \A r \in Ranks : ConcatBranch(stack, other, r) = "default"
                THEN other ELSE Memo(other)
    /\ last' = [op |-> "concatenate", req |-> RangeReq(0, 0, 1), pre |-> stack, oth |-> other]
    /\ UNCHANGED <<nproc, out, nops, data, hfiles, pc, bcast, mpiroot, coldata, calls>>

\* new.read("Y") on every rank, new being the concatenation
ReadConcat ==
    /\ last.op = "concatenate"
    /\ out.col = ""
    /\ out' = [col |-> "Y", res |-> [r \in Ranks |-> read(stack, r, "Y")]]
    /\ stack' = Memo(stack)
    /\ UNCHANGED <<nproc, other, last, nops, data, hfiles, pc, bcast, mpiroot, coldata, calls>>

NextConcat == CsliceStack \/ CsliceOther \/ SizeStack \/ Concatenate \/ ReadConcat

SpecConcat == InitConcat /\ [][NextConcat]_vars

(***************************************************************************)
(* Observations used by the properties.                                     *)
(***************************************************************************)
\* the rows of the stack in file order: row g is AllRows(st)[g + 1]
AllRows(st) == Flatten([k \in 1..Len(st.files) |-> st.files[k].rows])

\* the positions rank owns, in the order its partitions enumerate them
OwnedPositions(st, rank) ==
    Flatten([i \in 1..Len(slices(st, rank)) |-> slices(st, rank)[i].idx])

\* the rows at the positions rank owns
OwnedRows(st, rank) ==
    [k \in 1..Len(OwnedPositions(st, rank)) |-> AllRows(st)[OwnedPositions(st, rank)[k] + 1]]

\* the positions owned by the ranks, laid end to end in rank order
AllPositions(st) == Flatten([k \in 1..nproc |-> OwnedPositions(st, k - 1)])

\* the results res[rank] of a read laid end to end in rank order
Collected(res) == Flatten([k \in 1..nproc |-> res[k - 1].rows])

\* every rank's read returned
AllReturned(res) == \A r \in Ranks : res[r].err = "none"

\* read of every rank of st
ReadAll(st, column) == [r \in Ranks |-> read(st, r, column)]

\* <<0, 1, ..., n - 1>>
Iota(n) == [k \in 1..n |-> k - 1]

(***************************************************************************)
(* C1.  Default partitions: while the stack has not been resliced, rank r   *)
(* owns the contiguous range [floor(r*N/P), floor((r+1)*N/P)) of the N rows *)
(* of the files, and the partitions of the P ranks laid end to end in rank  *)
(* order are 0, 1, ..., N-1: [0, N) is covered once, without gap or overlap.*)
(***************************************************************************)
C1_DefaultPartitionsCover ==
    last.op = "init" =>
        LET N == cfilesize(stack)
        IN  /\ \A r \in Ranks :
                   /\ Len(slices(stack, r)) = 1
                   /\ ~slices(stack, r)[1].arr
                   /\ OwnedPositions(stack, r)
                        = [k \in 1..(((r + 1) * N) \div nproc - (r * N) \div nproc) |->
                              (r * N) \div nproc + k - 1]
            /\ AllPositions(stack) = Iota(N)

\* a read has evaluated the default partitions of 3 ranks sharing 4 rows
C1_Witness ==
    /\ last.op = "init"
    /\ out.col = "Y"
    /\ \A r \in Ranks : stack.sl[r].set
    /\ nproc = 3
    /\ cfilesize(stack) = 4

(***************************************************************************)
(* C2.  Order preservation of read: read("Y") returns on every rank exactly *)
(* the rows at the positions of the rank's partitions, in the order the     *)
(* partitions enumerate them; with default partitions the results laid end  *)
(* to end in rank order are the rows 0..n-1 in order.                       *)
(***************************************************************************)
C2_ReadReturnsOwnedRows ==
    out.col = "Y" =>
        /\ \A r \in Ranks :
               /\ out.res[r].err = "none"
               /\ out.res[r].rows = OwnedRows(stack, r)
        /\ (last.op = "init" => Collected(out.res) = Iota(cfilesize(stack)))

\* the same on the ranks that own at least one row
ReadReturnsOwnedRowsWhereNotEmpty ==
    out.col = "Y" =>
        /\ \A r \in Ranks :
               size(stack, r) > 0 =>
                   /\ out.res[r].err = "none"
                   /\ out.res[r].rows = OwnedRows(stack, r)
        /\ (last.op = "init" /\ AllReturned(out.res)
                => Collected(out.res) = Iota(cfilesize(stack)))

\* a rank that owns no row has read
EmptyRankHasRead ==
    /\ out.col = "Y"
    /\ \E r \in Ranks : size(stack, r) = 0 /\ out.res[r].err = "IndexError"

(***************************************************************************)
(* C6.  Reversal: after new = stack.cslice(N-1, -1, -1) on a stack of N     *)
(* rows, read("Y") returns on every rank of new and of the stack, and the   *)
(* results of new laid end to end in rank order are the reverse of those of *)
(* the stack laid end to end in rank order.                                 *)
(***************************************************************************)
IsReversal ==
    /\ last.op = "cslice"
    /\ last.req = RangeReq(csize(last.pre) - 1, 0 - 1, 0 - 1)

C6_ReversedRead ==
    IsReversal =>
        /\ AllReturned(ReadAll(stack, "Y"))
        /\ AllReturned(ReadAll(last.pre, "Y"))
        /\ Collected(ReadAll(stack, "Y")) = Reverse(Collected(ReadAll(last.pre, "Y")))

\* the same when no rank is left without a row
ReversedReadWhereNotEmpty ==
    (IsReversal /\ csize(last.pre) >= nproc) =>
        /\ AllReturned(ReadAll(stack, "Y"))
        /\ AllReturned(ReadAll(last.pre, "Y"))
        /\ Collected(ReadAll(stack, "Y")) = Reverse(Collected(ReadAll(last.pre, "Y")))

\* a reversal of at least 3 rows held in two files by two ranks or more
ReversalHappened ==
    /\ IsReversal
    /\ csize(last.pre) >= 3
    /\ nproc >= 2
    /\ Len(stack.files) = 2
    /\ Collected(ReadAll(stack, "Y")) # Collected(ReadAll(last.pre, "Y"))

(***************************************************************************)
(* C7.  Reslice idempotence: after new = stack.cslice(0, N, 1) on a stack   *)
(* of N rows split evenly over the ranks, read("Y") returns on every rank   *)
(* of new and of the stack, and the results laid end to end in rank order   *)
(* are the same for new and for the stack, on the range path and on the     *)
(* array path.                                                              *)
(***************************************************************************)
EvenlySplit(st) ==
    \A r \in Ranks :
        size(st, r) = ((r + 1) * csize(st)) \div nproc - (r * csize(st)) \div nproc

IsFullReslice ==
    /\ last.op = "cslice"
    /\ last.req = RangeReq(0, csize(last.pre), 1)
    /\ EvenlySplit(last.pre)

C7_FullResliceKeepsContent ==
    IsFullReslice =>
        /\ AllReturned(ReadAll(stack, "Y"))
        /\ AllReturned(ReadAll(last.pre, "Y"))
        /\ Collected(ReadAll(stack, "Y")) = Collected(ReadAll(last.pre, "Y"))

\* the same when no rank is left without a row
FullResliceKeepsContentWhereNotEmpty ==
    (IsFullReslice /\ csize(last.pre) >= nproc) =>
        /\ AllReturned(ReadAll(stack, "Y"))
        /\ AllReturned(ReadAll(last.pre, "Y"))
        /\ Collected(ReadAll(stack, "Y")) = Collected(ReadAll(last.pre, "Y"))

\* a full reslice on the array path, of a stack that holds an index array
FullResliceOnArrayPath ==
    /\ IsFullReslice
    /\ IsSliceArray(last.pre)
    /\ csize(last.pre) >= 3
    /\ nproc >= 2

\* a full reslice on the range path of a reversed stack
FullResliceOnRangePath ==
    /\ IsFullReslice
    /\ ~IsSliceArray(last.pre)
    /\ csize(last.pre) >= 3
    /\ nproc >= 2
    /\ AllPositions(last.pre) # Iota(csize(last.pre))

(***************************************************************************)
(* C8.  Missing column on read: when a file of the stack lacks column "X",  *)
(* read("X") raises on every rank; no rank returns rows.                    *)
(***************************************************************************)
SomeFileLacksX(st) == \E k \in 1..Len(st.files) : ~st.files[k].hasX

C8_MissingColumnFailsEverywhere ==
    (out.col = "X" /\ SomeFileLacksX(stack)) =>
        \A r \in Ranks : out.res[r].err # "none"

\* a rank whose partitions overlap a file without the column raises
MissingColumnFailsWhereOverlapped ==
    out.col = "X" =>
        \A r \in Ranks :
            (\E g \in 1..Len(OwnedPositions(stack, r)) : \E k \in 1..Len(stack.files) :
                 /\ ~stack.files[k].hasX
                 /\ \E j \in 1..Len(FileWindow(stack, k).idx) :
                        FileWindow(stack, k).idx[j] = OwnedPositions(stack, r)[g])
                => out.res[r].err = "KeyError"

(***************************************************************************)
(* C4.  Content of concatenate: after new = concatenate(stack, other),      *)
(* whatever the partition state of the two stacks, the rows read from new,  *)
(* laid end to end in rank order, are the rows read from the stack followed *)
(* by the rows read from other.  Stated for the runs in which every rank's  *)
(* read of the three stacks returns.                                        *)
(***************************************************************************)
C4_ConcatenatedContent ==
    (/\ last.op = "concatenate"
     /\ AllReturned(ReadAll(stack, "Y"))
     /\ AllReturned(ReadAll(last.pre, "Y"))
     /\ AllReturned(ReadAll(last.oth, "Y")))
        => Collected(ReadAll(stack, "Y"))
             = Collected(ReadAll(last.pre, "Y")) \o Collected(ReadAll(last.oth, "Y"))

\* the same when no input holds an index array (default and range branches)
ConcatenatedContentWithoutArray ==
    (/\ last.op = "concatenate"
     /\ ~IsSliceArray(last.pre)
     /\ ~IsSliceArray(last.oth)
     /\ AllReturned(ReadAll(stack, "Y"))
     /\ AllReturned(ReadAll(last.pre, "Y"))
     /\ AllReturned(ReadAll(last.oth, "Y")))
        => Collected(ReadAll(stack, "Y"))
             = Collected(ReadAll(last.pre, "Y")) \o Collected(ReadAll(last.oth, "Y"))

(***************************************************************************)
(* C5.  Balance after concatenate: after new = concatenate(stack, other)    *)
(* the sizes of new on the ranks sum to csize(stack) + csize(other) and     *)
(* differ by at most 1 between any two ranks, in each branch of concatenate.*)
(***************************************************************************)
C5_ConcatenateBalanced ==
    last.op = "concatenate" =>
        /\ csize(stack) = csize(last.pre) + csize(last.oth)
        /\ \A r1, r2 \in Ranks : size(stack, r1) - size(stack, r2) <= 1

\* the three branches of concatenate, each with rows that do not divide
\* evenly over the ranks
C5_WitnessRange ==
    /\ last.op = "concatenate"
    /\ \A r \in Ranks : ConcatBranch(last.pre, last.oth, r) = "range"
    /\ nproc = 3
    /\ csize(stack) >= 4
    /\ csize(stack) < cfilesize(stack)

ConcatenatedOnArrayBranch ==
    /\ last.op = "concatenate"
    /\ \A r \in Ranks : ConcatBranch(last.pre, last.oth, r) = "array"
    /\ nproc >= 2
    /\ csize(stack) >= 3

ConcatenatedOnDefaultBranch ==
    /\ last.op = "concatenate"
    /\ \A r \in Ranks : ConcatBranch(last.pre, last.oth, r) = "default"
    /\ nproc >= 2
    /\ csize(stack) >= 3

(***************************************************************************)
(* C9.  Central partition invariant: after every cslice and concatenate the *)
(* partitions of the ranks own every position of [0, csize) exactly once    *)
(* and no position outside, csize being the sum of the partition sizes.     *)
(***************************************************************************)
Central(st) ==
    /\ \A k \in 1..Len(AllPositions(st)) :
           AllPositions(st)[k] >= 0 /\ AllPositions(st)[k] < csize(st)
    /\ \A g \in 0..(csize(st) - 1) :
           Cardinality({k \in 1..Len(AllPositions(st)) : AllPositions(st)[k] = g}) = 1

C9_CentralInvariant ==
    last.op \in {"cslice", "cslice_other", "concatenate"} =>
        Central(stack) /\ Central(other)

\* C9 for concatenate alone: concatenating two stacks that satisfy the
\* invariant yields a stack that satisfies it
C9_ConcatenateKeepsCentral ==
    (last.op = "concatenate" /\ Central(last.pre) /\ Central(last.oth)) => Central(stack)

(***************************************************************************)
(* Specification of writing: FileStack.write of rows already distributed    *)
(* over the ranks (mpiroot=None), then the files are opened again and read. *)
(***************************************************************************)
\* the rows the ranks pass to write, numbered in rank order
MkData(sizes) ==
    [r \in Ranks |->
        [j \in 1..sizes[r] |->
            SumSeq([k \in 1..r |-> sizes[k - 1]]) + j - 1]]

\* the rows passed to write laid end to end in rank order
DataAll == Flatten([k \in 1..nproc |-> data[k - 1]])

InitWrite ==
    /\ nproc \in 1..MaxProc
    /\ \E nfiles \in 1..MaxWriteFiles : \E set \in BOOLEAN :
           stack = [files |-> [k \in 1..nfiles |-> [rows |-> << >>, hasX |-> TRUE, csize |-> 0]],
                    sl |-> [r \in Ranks |-> [set |-> set, parts |-> << >>]]]
    /\ \E sizes \in [Ranks -> 0..MaxContrib] : data = MkData(sizes)
    /\ other = NoStack
    /\ last = [op |-> "init", req |-> RangeReq(0, 0, 1), pre |-> stack, oth |-> other]
    /\ out = NoOut
    /\ nops = 0
    /\ hfiles = << >>
    /\ pc = NoPc
    /\ bcast = << >>
    /\ mpiroot = 0 - 1
    /\ coldata = NoData
    /\ calls = NoData

\* stack.write(data) on every rank
Write ==
    /\ last.op = "init"
    /\ stack' = write(stack, data)
    /\ last' = [last EXCEPT !.op = "write"]
    /\ UNCHANGED <<nproc, other, out, nops, data, hfiles, pc, bcast, mpiroot, coldata, calls>>

\* FileStack(*filenames) on the files written
ReopenFiles ==
    /\ last.op = "write"
    /\ stack' = Reopen(stack)
    /\ last' = [last EXCEPT !.op = "reopen"]
    /\ UNCHANGED <<nproc, other, out, nops, data, hfiles, pc, bcast, mpiroot, coldata, calls>>

\* read(column) of the reopened stack on every rank
ReadBack ==
    /\ last.op = "reopen"
    /\ out.col = ""
    /\ \E column \in {"X", "Y"} :
           out' = [col |-> column, res |-> [r \in Ranks |-> read(stack, r, column)]]
    /\ stack' = Memo(stack)
    /\ UNCHANGED <<nproc, other, last, nops, data, hfiles, pc, bcast, mpiroot, coldata, calls>>

NextWrite == Write \/ ReopenFiles \/ ReadBack

SpecWrite == InitWrite /\ [][NextWrite]_vars

(***************************************************************************)
(* C3.  Write/read round trip: write puts row g of the rank-order           *)
(* concatenation of the contributions (N rows) in the file i whose window   *)
(* [floor(i*N/F), floor((i+1)*N/F)) holds g, at place g - floor(i*N/F), so  *)
(* each file holds exactly the rows of its window in order; reading the     *)
(* reopened files returns the rows that were passed to write.               *)
(***************************************************************************)
\* the rows of the window of file k (k = 1..F) among the N rows written
WindowRows(k, nfiles) ==
    LET N == Len(DataAll)
        lo == ((k - 1) * N) \div nfiles
        hi == (k * N) \div nfiles
    IN  SubSeq(DataAll, lo + 1, hi)

RowsInTheirWindows ==
    \A k \in 1..Len(stack.files) : stack.files[k].rows = WindowRows(k, Len(stack.files))

C3_WriteReadRoundTrip ==
    /\ (last.op \in {"write", "reopen"} => RowsInTheirWindows)
    /\ (last.op = "reopen" /\ out.col # ""
            => AllReturned(out.res) /\ Collected(out.res) = DataAll)

\* the contributions are the equal floor split of the rows
EvenContributions ==
    \A r \in Ranks :
        Len(data[r]) = ((r + 1) * Len(DataAll)) \div nproc - (r * Len(DataAll)) \div nproc

\* the round trip for contributions that are the equal floor split
RoundTripOfEvenContributions ==
    EvenContributions =>
        /\ (last.op \in {"write", "reopen"} => RowsInTheirWindows)
        /\ (last.op = "reopen" /\ out.col # "" /\ Len(DataAll) >= nproc
                => AllReturned(out.res) /\ Collected(out.res) = DataAll)

(***************************************************************************)
(* Specification of header resolution: every rank resolves the headers of   *)
(* the files in order (BaseFile._read_header); rank 0 is mpiroot.           *)
(* hfiles[k] tells whether _read_header_root raises for file k.             *)
(***************************************************************************)
InitHeader ==
    /\ nproc \in 1..MaxProc
    /\ \E n \in 1..MaxHeaderFiles : hfiles \in [1..n -> [bad : BOOLEAN]]
    /\ pc = [r \in Ranks |-> [k |-> 1, at |-> "start"]]
    /\ bcast = [k \in 1..Len(hfiles) |-> "none"]
    /\ stack = NoStack
    /\ other = NoStack
    /\ last = [op |-> "init", req |-> RangeReq(0, 0, 1), pre |-> stack, oth |-> other]
    /\ out = NoOut
    /\ nops = 0
    /\ data = NoData
    /\ mpiroot = 0 - 1
    /\ coldata = NoData
    /\ calls = NoData

\* the root reads the header: _read_header_root returns the state, which the
\* root then broadcasts, or raises, and the exception leaves _read_header
HeaderRoot(r) ==
    /\ r = 0
    /\ pc[r].at = "start"
    /\ IF hfiles[pc[r].k].bad
       THEN /\ pc' = [pc EXCEPT ![r].at = "raised"]
            /\ UNCHANGED bcast
       ELSE /\ pc' = [pc EXCEPT ![r].at = "bcast"]
            /\ bcast' = [bcast EXCEPT ![pc[r].k] = "state"]
    /\ UNCHANGED <<nproc, stack, other, last, out, nops, data, hfiles, mpiroot, coldata, calls>>

\* another rank skips the reading and enters mpicomm.bcast
HeaderEnterBcast(r) ==
    /\ r # 0
    /\ pc[r].at = "start"
    /\ pc' = [pc EXCEPT ![r].at = "bcast"]
    /\ UNCHANGED <<nproc, stack, other, last, out, nops, data, hfiles, bcast, mpiroot, coldata, calls>>

\* mpicomm.bcast returns the state of the root; the rank goes to the next file
HeaderBcastReturn(r) ==
    /\ pc[r].at = "bcast"
    /\ bcast[pc[r].k] # "none"
    /\ pc' = [pc EXCEPT ![r] = IF pc[r].k < Len(hfiles)
                                THEN [k |-> pc[r].k + 1, at |-> "start"]
                                ELSE [k |-> pc[r].k, at |-> "done"]]
    /\ UNCHANGED <<nproc, stack, other, last, out, nops, data, hfiles, bcast, mpiroot, coldata, calls>>

NextHeader ==
    \E r \in Ranks : HeaderRoot(r) \/ HeaderEnterBcast(r) \/ HeaderBcastReturn(r)

SpecHeader == InitHeader /\ [][NextHeader]_vars

(***************************************************************************)
(* C10.  Metadata error propagation: once _read_header_root has raised on   *)
(* the root, no rank is blocked in the broadcast of a header that the root  *)
(* never sends; every rank gets the error and raises it.                    *)
(***************************************************************************)
\* rank r waits in a broadcast that has no sender
Blocked(r) == pc[r].at = "bcast" /\ bcast[pc[r].k] = "none"

C10_HeaderErrorReachesAll ==
    pc[0].at = "raised" => \A r \in Ranks : ~Blocked(r)

(***************************************************************************)
(* C17.  Read on an empty worker: read(column) of a column that every file  *)
(* holds returns on every rank, also on a rank whose partitions select no   *)
(* row, and the length of what it returns is the size of the rank.          *)
(***************************************************************************)
C17_ReadOnEmptyWorker ==
    (out.col # "" /\ \A k \in 1..Len(stack.files) : HasColumn(stack.files[k], out.col)) =>
        \A r \in Ranks :
            /\ out.res[r].err = "none"
            /\ Len(out.res[r].rows) = size(stack, r)

\* where read returns, the length of the result is the size of the rank
ReadLengthIsSizeWhereReturned ==
    out.col # "" =>
        \A r \in Ranks :
            out.res[r].err = "none" => Len(out.res[r].rows) = size(stack, r)

\* read raises IndexError on the ranks without rows, and only on them, when
\* every file holds the column
ReadRaisesExactlyWhereEmpty ==
    (out.col # "" /\ \A k \in 1..Len(stack.files) : HasColumn(stack.files[k], out.col)) =>
        \A r \in Ranks : (out.res[r].err = "IndexError") <=> (size(stack, r) = 0)

(***************************************************************************)
(* Specification of writing from a designated rank: the rows are held by    *)
(* rank mpiroot only, FileStack.write(data, mpiroot=mpiroot) distributes    *)
(* them and writes them; then the files are opened again and read.          *)
(***************************************************************************)
MaxRootRows == 3

\* mpi.scatter_array(data, root=root): args[rank] = [none, rows] is what rank
\* passes (none: it passes None); the rows of the root are cut in nproc
\* near-equal parts, part r going to rank r; a root that holds no array has
\* nothing to scatter and the call raises
ScatterArray(args, root) ==
    LET n == Len(args[root].rows)
    IN  IF args[root].none
        THEN [err |-> "ValueError", parts |-> [r \in Ranks |-> << >>]]
        ELSE [err |-> "none",
              parts |-> [r \in Ranks |->
                            SubSeq(args[root].rows,
                                   FloorDiv(r * n, nproc) + 1, FloorDiv((r + 1) * n, nproc))]]

\* FileStack.write(d[rank], mpiroot=root) on every rank, root being a rank or
\* -1 (None): [err, st] with the exception raised, if any, and the stack after;
\* the rows are scattered with root=self.mpiroot, which FileStack.__init__
\* sets to 0
writeFrom(st, d, root) ==
    IF root = 0 - 1 THEN [err |-> "none", st |-> write(st, d)]
    ELSE LET args == [r \in Ranks |->
                         IF r = root THEN [none |-> FALSE, rows |-> d[r]]
                         ELSE [none |-> TRUE, rows |-> << >>]]
             scattered == ScatterArray(args, 0)
         IN  IF scattered.err # "none" THEN [err |-> scattered.err, st |-> st]
             ELSE [err |-> "none", st |-> write(st, scattered.parts)]

InitWriteRoot ==
    /\ nproc \in 1..MaxProc
    /\ mpiroot \in Ranks
    /\ \E nfiles \in 1..MaxWriteFiles :
           stack = [files |-> [k \in 1..nfiles |-> [rows |-> << >>, hasX |-> TRUE, csize |-> 0]],
                    sl |-> Unsliced]
    /\ \E n \in 0..MaxRootRows :
           data = [r \in Ranks |-> IF r = mpiroot THEN Iota(n) ELSE << >>]
    /\ other = NoStack
    /\ last = [op |-> "init", req |-> RangeReq(0, 0, 1), pre |-> stack, oth |-> other]
    /\ out = NoOut
    /\ nops = 0
    /\ hfiles = << >>
    /\ pc = NoPc
    /\ bcast = << >>
    /\ coldata = NoData
    /\ calls = NoData

\* stack.write(data, mpiroot=mpiroot) on every rank
WriteRoot ==
    /\ last.op = "init"
    /\ LET res == writeFrom(stack, data, mpiroot)
       IN  /\ stack' = res.st
           /\ last' = [last EXCEPT !.op = IF res.err = "none" THEN "write" ELSE "write_raised"]
    /\ UNCHANGED <<nproc, other, out, nops, data, hfiles, pc, bcast, mpiroot, coldata, calls>>

NextWriteRoot == WriteRoot \/ ReopenFiles \/ ReadBack

SpecWriteRoot == InitWriteRoot /\ [][NextWriteRoot]_vars

(***************************************************************************)
(* C11.  Write from a designated rank: for every rank w, write(data,        *)
(* mpiroot=w) with the rows held by w only returns and the files hold       *)
(* exactly the rows of w in order, each file the rows of its window; so     *)
(* what is written does not depend on w.                                    *)
(***************************************************************************)
C11_WriteFromDesignatedRank ==
    last.op # "init" =>
        /\ last.op # "write_raised"
        /\ AllRows(stack) = data[mpiroot]
        /\ RowsInTheirWindows

\* the same when the designated rank is rank 0, the mpiroot of the stack
WriteFromStackRoot ==
    (last.op # "init" /\ mpiroot = 0) =>
        /\ last.op # "write_raised"
        /\ AllRows(stack) = data[mpiroot]
        /\ RowsInTheirWindows

\* a write from another rank has not written the rows of that rank
WriteFromOtherRankFails ==
    (last.op # "init" /\ mpiroot # 0 /\ data[mpiroot] # << >>) =>
        AllRows(stack) # data[mpiroot]

(***************************************************************************)
(* Specification of writing a column mapping: FileStack.write(data) with    *)
(* data a dict, coldata[rank] being the list of its columns [name, rows] in *)
(* the order of the dict.  The files take a dict as such and write each     *)
(* column on its own (HDF5File._write_data, each column gathered).          *)
(***************************************************************************)
\* size of line 250: the length of the first column of the mapping of rank
FirstColumnLen(cd, rank) == Len(cd[rank][1].rows)

\* {name: data[name][rows.idx] for name in data} on rank for file ifile: the
\* rows of column c that rank passes to the write of the file
DictChunk(st, cd, rank, ifile, c) ==
    LET sizes == [k \in 1..nproc |-> FirstColumnLen(cd, k - 1)]
        sized == [files |-> SizedFiles(st, SumSeq(sizes)), sl |-> Unsliced]
        fcumsizes == CumSum(0, filesizes(sized))
        cumsizes == CumSum(0, sizes)
        rows == fileslices(sized, rank)[1][ifile].rows
    IN  TakeRows(cd[rank][c].rows, Shift(rows, fcumsizes[ifile] - cumsizes[rank + 1]))

\* HDF5File._write_data(data): each column is gathered over the ranks and
\* becomes a dataset of the file
WriteDataDict(st, cd, ifile) ==
    [c \in 1..Len(cd[0]) |->
        [name |-> cd[0][c].name,
         rows |-> Flatten([r \in 1..nproc |-> DictChunk(st, cd, r - 1, ifile, c)])]]

\* FileStack.write(cd[rank]) on every rank, cd[rank] being a dict: [err, st];
\* a file holds its datasets in cols, rows being the first of them
writeDict(st, cd) ==
    LET total == SumSeq([k \in 1..nproc |-> FirstColumnLen(cd, k - 1)])
        sized == SizedFiles(st, total)
    IN  [err |-> "none",
         st |-> [files |-> [k \in 1..Len(st.files) |->
                               [rows |-> WriteDataDict(st, cd, k)[1].rows,
                                hasX |-> sized[k].hasX,
                                csize |-> sized[k].csize,
                                cols |-> WriteDataDict(st, cd, k)]],
                 sl |-> [r \in Ranks |->
                            [set |-> TRUE,
                             parts |-> DefaultSlices([files |-> sized, sl |-> st.sl], r)]]]]

\* the columns "X" and "Y" of the given lengths on each rank, numbered in
\* rank order
MkColData(sizesX, sizesY) ==
    [r \in Ranks |-> <<[name |-> "X", rows |-> MkData(sizesX)[r]],
                       [name |-> "Y", rows |-> MkData(sizesY)[r]]>>]

InitWriteDict ==
    /\ nproc \in 1..MaxProc
    /\ \E nfiles \in 1..MaxWriteFiles :
           stack = [files |-> [k \in 1..nfiles |->
                                  [rows |-> << >>, hasX |-> TRUE, csize |-> 0, cols |-> << >>]],
                    sl |-> Unsliced]
    /\ \E sizesX \in [Ranks -> 0..MaxContrib] : \E sizesY \in [Ranks -> 0..MaxContrib] :
           coldata = MkColData(sizesX, sizesY)
    /\ other = NoStack
    /\ last = [op |-> "init", req |-> RangeReq(0, 0, 1), pre |-> stack, oth |-> other]
    /\ out = NoOut
    /\ nops = 0
    /\ data = NoData
    /\ hfiles = << >>
    /\ pc = NoPc
    /\ bcast = << >>
    /\ mpiroot = 0 - 1
    /\ calls = NoData

\* stack.write(coldata) on every rank
WriteDict ==
    /\ last.op = "init"
    /\ LET res == writeDict(stack, coldata)
       IN  /\ stack' = res.st
           /\ last' = [last EXCEPT !.op = IF res.err = "none" THEN "write" ELSE "write_raised"]
    /\ UNCHANGED <<nproc, other, out, nops, data, hfiles, pc, bcast, mpiroot, coldata, calls>>

NextWriteDict == WriteDict

SpecWriteDict == InitWriteDict /\ [][NextWriteDict]_vars

(***************************************************************************)
(* C13.  Mismatched column lengths on write: when the mapping passed to     *)
(* write holds, on some rank, columns of different lengths, write raises    *)
(* and no file is written.                                                  *)
(***************************************************************************)
MismatchedColumns(cd) ==
    \E r \in Ranks : \E c \in 1..Len(cd[r]) : Len(cd[r][c].rows) # Len(cd[r][1].rows)

C13_MismatchedColumnsRejected ==
    (last.op # "init" /\ MismatchedColumns(coldata)) =>
        /\ last.op = "write_raised"
        /\ stack.files = last.pre.files

\* write never raises: the length of the first column is the row count, and
\* the files are sized by it
WriteTakesFirstColumnLength ==
    last.op # "init" =>
        /\ last.op = "write"
        /\ cfilesize(stack) = SumSeq([k \in 1..nproc |-> FirstColumnLen(coldata, k - 1)])

\* columns of different lengths have been written: a file holds datasets of
\* different lengths
MismatchedColumnsWritten ==
    /\ last.op = "write"
    /\ \E k \in 1..Len(stack.files) :
           Len(stack.files[k].cols[2].rows) # Len(stack.files[k].cols[1].rows)

(***************************************************************************)
(* Specification of the calls of FileStack.write(data), rank by rank, data  *)
(* being distributed (mpiroot=None): pc[rank] = [k, at] is where rank is,   *)
(* at "begin" before the call, at "allreduce" in the collectives of lines   *)
(* 254-260, at "call" before its k-th file write, at "collective" in the    *)
(* allgather and barrier of that file write, at "done" after the call.      *)
(* last.pre is the stack the write was called on.                           *)
(***************************************************************************)
\* ShardsWritten with a file written only by the ranks that have rows for it
ShardsWrittenIfOverlap(st, d, rank) ==
    LET total == SumSeq([k \in 1..nproc |-> Len(d[k - 1])])
        sized == [files |-> SizedFiles(st, total), sl |-> Unsliced]
    IN  Flatten([i \in 1..Len(fileslices(sized, rank)) |->
                    SelectSeq(Positions(Len(fileslices(sized, rank)[i])),
                              LAMBDA f : NonEmpty(fileslices(sized, rank)[i][f].rows))])

\* the files whose write rank calls during FileStack.write(d), in the order
\* of the calls: _slices being reset, for each default slice, each file
ShardsWritten(st, d, rank) ==
    LET total == SumSeq([k \in 1..nproc |-> Len(d[k - 1])])
        sized == [files |-> SizedFiles(st, total), sl |-> Unsliced]
    IN  Flatten([i \in 1..Len(fileslices(sized, rank)) |->
                    Positions(Len(fileslices(sized, rank)[i]))])

\* what rank passes to the write of each file it calls, in the order of the
\* calls: plan[j] = [f, rows], the file of the j-th call and the rows passed
WritePlan(st, d, rank) ==
    [j \in 1..Len(ShardsWritten(st, d, rank)) |->
        [f |-> ShardsWritten(st, d, rank)[j],
         rows |-> WriteChunk(st, d, rank, ShardsWritten(st, d, rank)[j])]]

\* whether rank has entered the write of file f
HasCalled(rank, f) == \E j \in 1..Len(calls[rank]) : calls[rank][j] = f

\* whether rank has left the write of file f
HasWritten(rank, f) ==
    /\ HasCalled(rank, f)
    /\ ~(pc[rank].at = "collective" /\ calls[rank][Len(calls[rank])] = f)

\* the rows rank passes to the write of file f
PlannedRows(rank, f) ==
    pc[rank].plan[CHOOSE j \in 1..Len(pc[rank].plan) : pc[rank].plan[j].f = f].rows

InitWriteCalls ==
    /\ nproc \in 1..MaxProc
    /\ \E nfiles \in 1..MaxWriteFiles : \E set \in BOOLEAN :
           stack = [files |-> [k \in 1..nfiles |-> [rows |-> << >>, hasX |-> TRUE, csize |-> 0]],
                    sl |-> [r \in Ranks |-> [set |-> set, parts |-> << >>]]]
    /\ \E sizes \in [Ranks -> 0..MaxContrib] : data = MkData(sizes)
    /\ other = NoStack
    /\ last = [op |-> "write", req |-> RangeReq(0, 0, 1), pre |-> stack, oth |-> other]
    /\ out = NoOut
    /\ nops = 0
    /\ hfiles = << >>
    /\ pc = [r \in Ranks |-> [k |-> 0, at |-> "begin", plan |-> << >>]]
    /\ bcast = << >>
    /\ mpiroot = 0 - 1
    /\ coldata = NoData
    /\ calls = NoData

\* rank r calls write and enters mpicomm.allreduce(size)
WriteEnter(r) ==
    /\ pc[r].at = "begin"
    /\ pc' = [pc EXCEPT ![r].at = "allreduce"]
    /\ UNCHANGED <<nproc, stack, other, last, out, nops, data, hfiles, bcast,
                   mpiroot, coldata, calls>>

\* every rank being in the call, allreduce and allgather return on rank r,
\* which sets the _csize of the files, resets _slices and evaluates fileslices
WriteSized(r) ==
    /\ pc[r].at = "allreduce"
    /\ \A q \in Ranks : pc[q].at # "begin"
    /\ stack' = [files |-> [k \in 1..Len(stack.files) |->
                               [stack.files[k] EXCEPT !.csize =
                                   SizedFiles(last.pre, Len(DataAll))[k].csize]],
                 sl |-> [stack.sl EXCEPT ![r] =
                            [set |-> TRUE,
                             parts |-> DefaultSlices([files |-> SizedFiles(last.pre, Len(DataAll)),
                                                      sl |-> Unsliced], r)]]]
    /\ pc' = [pc EXCEPT ![r] =
                 [k |-> IF WritePlan(last.pre, data, r) = << >> THEN 0 ELSE 1,
                  at |-> IF WritePlan(last.pre, data, r) = << >> THEN "done" ELSE "call",
                  plan |-> WritePlan(last.pre, data, r)]]
    /\ UNCHANGED <<nproc, other, last, out, nops, data, hfiles, bcast, mpiroot, coldata, calls>>

\* rank r calls the write of its k-th file and enters the collective of
\* _write_data
FileWriteEnter(r) ==
    /\ pc[r].at = "call"
    /\ calls' = [calls EXCEPT ![r] = Append(calls[r], pc[r].plan[pc[r].k].f)]
    /\ pc' = [pc EXCEPT ![r].at = "collective"]
    /\ UNCHANGED <<nproc, stack, other, last, out, nops, data, hfiles, bcast, mpiroot, coldata>>

\* every rank having entered the write of the file, the collective returns on
\* rank r, which writes its rows at their place in the file and goes on to
\* its next file
FileWriteReturn(r) ==
    /\ pc[r].at = "collective"
    /\ LET f == pc[r].plan[pc[r].k].f
       IN  /\ \A q \in Ranks : HasCalled(q, f)
           /\ stack' = [stack EXCEPT !.files[f].rows =
                            Flatten([q \in 1..nproc |->
                                        IF q - 1 = r \/ HasWritten(q - 1, f)
                                        THEN PlannedRows(q - 1, f)
                                        ELSE << >>])]
    /\ pc' = [pc EXCEPT ![r].k = IF pc[r].k < Len(pc[r].plan) THEN pc[r].k + 1 ELSE pc[r].k,
                        ![r].at = IF pc[r].k < Len(pc[r].plan) THEN "call" ELSE "done"]
    /\ UNCHANGED <<nproc, other, last, out, nops, data, hfiles, bcast, mpiroot, coldata, calls>>

NextWriteCalls ==
    \/ \E r \in Ranks : WriteEnter(r)
    \/ \E r \in Ranks : FileWriteEnter(r)
    \/ \E r \in Ranks : FileWriteReturn(r)
    \/ \E r \in Ranks : WriteSized(r)

SpecWriteCalls == InitWriteCalls /\ [][NextWriteCalls]_vars

\* whether rank r can take its next step: the guards of the four actions
CanStep(r) ==
    \/ pc[r].at \in {"begin", "call"}
    \/ pc[r].at = "allreduce" /\ \A q \in Ranks : pc[q].at # "begin"
    \/ pc[r].at = "collective" /\ \A q \in Ranks : HasCalled(q, pc[r].plan[pc[r].k].f)

\* the ranks run: as long as some rank can take a step, a step is taken.
\* This is weak fairness of NextWriteCalls, its enabling condition written
\* with the guards of the actions
SpecWriteCallsFair ==
    SpecWriteCalls /\ ([]<>(\A r \in Ranks : ~CanStep(r)) \/ []<><<NextWriteCalls>>_pc)

(***************************************************************************)
(* C16.  Collective participation in write: during one write every rank     *)
(* calls the write of every file exactly once, in file order, also for the  *)
(* files it has no row for, whatever partitions the stack held before; the  *)
(* collective of each file write is entered by all ranks and the write      *)
(* terminates on all of them.                                               *)
(***************************************************************************)
WriteDone == \A r \in Ranks : pc[r].at = "done"

C16_EveryRankWritesEveryShard ==
    /\ [](\A r \in Ranks : calls[r] = SubSeq(Positions(Len(stack.files)), 1, Len(calls[r])))
    /\ <>(WriteDone /\ \A r \in Ranks : calls[r] = Positions(Len(stack.files)))

\* the write of two files is over on three ranks, one of which had no row for
\* a file, the stack holding partitions before the call
C16_Witness ==
    /\ WriteDone
    /\ nproc = 3
    /\ Len(stack.files) = 2
    /\ \A r \in Ranks : last.pre.sl[r].set
    /\ \E r \in Ranks : \E f \in 1..2 :
           HasCalled(r, f) /\ PlannedRows(r, f) = << >>
    /\ Len(DataAll) >= 2

\* once the write is over on every rank, the stack is the one FileStack.write
\* yields as a whole
WriteCallsYieldWrite == WriteDone => stack = write(last.pre, data)

\* no rank waits in the collective of a file write that another rank has
\* passed without entering it
NoRankStranded ==
    \A r \in Ranks :
        pc[r].at = "collective" =>
            \A q \in Ranks :
                HasCalled(q, calls[r][Len(calls[r])]) \/ pc[q].at # "done"

(***************************************************************************)
(* The collective calls of cslice and concatenate, rank by rank.            *)
(***************************************************************************)
\* the collective calls rank issues during FileStack.cslice(*req), in order:
\* csize, allgather(size), _is_slice_array unless the request is an array,
\* then the scattered get of the array path or the allgather of the slices
CsliceCollectives(st, req, rank) ==
    <<"allreduce(size)", "allgather(size)">>
    \o (IF Split(GlobalSlice(st, req), nproc, rank).arr THEN << >> ELSE <<"allgather(is_array)">>)
    \o (IF CsliceArrayPath(st, req, rank) THEN <<"get">> ELSE <<"allgather(slices)">>)

\* the collective calls rank issues during FileStack.concatenate(a, b), in
\* order: none in the default branch; else _is_slice_array of a, and of b
\* unless a holds an array, then csize and allgather(size) of each and the
\* scattered get, or the allgather of the slices of each and the cslice that
\* balances
ConcatCollectives(a, b, rank) ==
    IF ConcatBranch(a, b, rank) = "default" THEN << >>
    ELSE <<"allgather(is_array)">>
         \o (IF IsSliceArray(a) THEN << >> ELSE <<"allgather(is_array)">>)
         \o (IF ConcatBranch(a, b, rank) = "array"
             THEN <<"allreduce(size)", "allreduce(size)",
                    "allgather(size)", "allgather(size)", "get">>
             ELSE <<"allgather(slices)", "allgather(slices)">>
                  \o CsliceCollectives(ConcatRangeStack(a, b),
                                       RangeReq(0, cfilesize(a) + cfilesize(b), 1), rank))

(***************************************************************************)
(* C15.  Lock-step path selection: in every state the ranks reach by the    *)
(* same operations, cslice (for any request) and concatenate take the same  *)
(* path on every rank and every rank issues the same sequence of collective *)
(* calls; cslice takes the range path exactly when the request and every    *)
(* partition of every rank are ranges, and concatenate takes its array      *)
(* branch exactly when a partition of an input is an index array.           *)
(***************************************************************************)
AllRanges(st) == \A r \in Ranks : \A i \in 1..Len(slices(st, r)) : ~slices(st, r)[i].arr

CsliceLockStep(st, req) ==
    /\ \A r \in Ranks :
           /\ CsliceArrayPath(st, req, r) = CsliceArrayPath(st, req, 0)
           /\ CsliceCollectives(st, req, r) = CsliceCollectives(st, req, 0)
    /\ (~CsliceArrayPath(st, req, 0)) <=> (~req.arr /\ AllRanges(st))

ConcatLockStep(a, b) ==
    /\ \A r \in Ranks :
           /\ ConcatBranch(a, b, r) = ConcatBranch(a, b, 0)
           /\ ConcatCollectives(a, b, r) = ConcatCollectives(a, b, 0)
    /\ (ConcatBranch(a, b, 0) = "array") <=> ~(AllRanges(a) /\ AllRanges(b))

C15_LockStepPaths ==
    /\ \A req \in Requests(csize(stack)) : CsliceLockStep(stack, req)
    /\ \A req \in Requests(csize(other)) : CsliceLockStep(other, req)
    /\ ConcatLockStep(stack, other)
    /\ ConcatLockStep(other, stack)

\* three ranks have concatenated on the array branch a stack resliced by an
\* index array and a stack resliced by a range, and the concatenation would
\* be resliced on the array path
C15_Witness ==
    /\ last.op = "concatenate"
    /\ nproc = 3
    /\ IsSliceArray(last.pre)
    /\ \A r \in Ranks : last.oth.sl[r].set
    /\ ~IsSliceArray(last.oth)
    /\ csize(stack) >= 3
    /\ CsliceArrayPath(stack, RangeReq(0, csize(stack), 1), 0)

\* the range path of cslice and the range branch of concatenate are taken
CsliceOnRangePathAfterReslice ==
    /\ last.op = "cslice"
    /\ nproc >= 2
    /\ \A r \in Ranks : stack.sl[r].set
    /\ ~CsliceArrayPath(stack, RangeReq(0, csize(stack), 1), 0)
    /\ ConcatBranch(stack, other, 0) = "range"

(***************************************************************************)
(* Specification of extend: a stack whose files list their columns, with    *)
(* the attributes _columns and _header in which FileStack.columns and       *)
(* FileStack.header cache their value (cols, hdr = [set, val]); a file is   *)
(* [rows, hasX, csize, columns].  A dict is the set of its <<key, value>>.  *)
(***************************************************************************)
\* the column lists of a file
ColumnLists == {<<"X", "Y">>, <<"Y", "X">>, <<"Y">>}

\* an attribute that is not set (None)
NotCached == [set |-> FALSE, val |-> << >>]

\* the elements of a sequence
Elems(seq) == {seq[k] : k \in 1..Len(seq)}

\* BaseFile.header: _read_header keeps state.pop('header', {}), and the
\* _read_header_root of every file type returns its attributes under 'attrs'
FileHeader(file) == {}

\* d.update(e)
DictUpdate(d, e) == {p \in d : \A q \in e : q[1] # p[1]} \cup e

\* the loop of FileStack.header over the first n files
RECURSIVE MergeHeaders(_, _)
MergeHeaders(files, n) ==
    IF n = 0 THEN {} ELSE DictUpdate(MergeHeaders(files, n - 1), FileHeader(files[n]))

\* what FileStack.columns computes when _columns is not set
ComputeColumns(st) ==
    IF st.files = << >> THEN << >>
    ELSE SelectSeq(st.files[1].columns,
                   LAMBDA c : \A k \in 2..Len(st.files) : c \in Elems(st.files[k].columns))

\* the value of FileStack.columns
columns(st) == IF st.cols.set THEN st.cols.val ELSE ComputeColumns(st)

\* the stack after FileStack.columns: _columns is set unless there is no file
ColumnsCached(st) ==
    IF st.cols.set \/ st.files = << >> THEN st
    ELSE [st EXCEPT !.cols = [set |-> TRUE, val |-> ComputeColumns(st)]]

\* the value of FileStack.header
header(st) == IF st.hdr.set THEN st.hdr.val ELSE MergeHeaders(st.files, Len(st.files))

\* the stack after FileStack.header
HeaderCached(st) ==
    IF st.hdr.set THEN st
    ELSE [st EXCEPT !.hdr = [set |-> TRUE, val |-> MergeHeaders(st.files, Len(st.files))]]

\* the stack that cls(*files) builds in concatenate: _columns and _header
\* are not set
Fresh(st) == [files |-> st.files, sl |-> st.sl, cols |-> NotCached, hdr |-> NotCached]

\* st.extend(o): the attributes of concatenate(st, o) are written over those
\* of st, which keeps the attributes the new stack does not have
extend(st, o) ==
    LET new == concatenate(st, o)
    IN  [files |-> new.files,
         sl |-> [r \in Ranks |-> IF new.sl[r].set THEN new.sl[r] ELSE st.sl[r]],
         cols |-> st.cols,
         hdr |-> st.hdr]

\* files of one row each with the given column lists, the rows numbered from
\* base
MkColumnFiles(cols, base) ==
    [k \in 1..Len(cols) |->
        [rows |-> <<base + k - 1>>,
         hasX |-> "X" \in Elems(cols[k]),
         csize |-> 1,
         columns |-> cols[k]]]

InitExtend ==
    /\ nproc \in 1..MaxProc
    /\ \E cols \in UNION {[1..n -> ColumnLists] : n \in 0..MaxStackFiles} :
           stack = [files |-> MkColumnFiles(cols, 0), sl |-> Unsliced,
                    cols |-> NotCached, hdr |-> NotCached]
    /\ \E cols \in UNION {[1..n -> ColumnLists] : n \in 1..MaxOtherFiles} :
           other = [files |-> MkColumnFiles(cols, OtherBase), sl |-> Unsliced]
    /\ last = [op |-> "init", req |-> RangeReq(0, 0, 1), pre |-> stack, oth |-> other]
    /\ out = NoOut
    /\ nops = 0
    /\ data = NoData
    /\ hfiles = << >>
    /\ pc = NoPc
    /\ bcast = << >>
    /\ mpiroot = 0 - 1
    /\ coldata = NoData
    /\ calls = NoData

\* stack.columns evaluated on every rank
ColumnsStack ==
    /\ ~stack.cols.set
    /\ stack.files # << >>
    /\ stack' = ColumnsCached(stack)
    /\ UNCHANGED <<nproc, other, last, out, nops, data, hfiles, pc, bcast,
                   mpiroot, coldata, calls>>

\* stack.header evaluated on every rank
HeaderStack ==
    /\ ~stack.hdr.set
    /\ stack' = HeaderCached(stack)
    /\ UNCHANGED <<nproc, other, last, out, nops, data, hfiles, pc, bcast,
                   mpiroot, coldata, calls>>

\* stack.extend(other) on every rank
Extend ==
    /\ last.op # "extend"
    /\ stack' = extend(stack, other)
    /\ other' = IF \A r \in Ranks : ConcatBranch(stack, other, r) = "default"
                THEN other ELSE Memo(other)
    /\ last' = [op |-> "extend", req |-> RangeReq(0, 0, 1), pre |-> stack, oth |-> other]
    /\ UNCHANGED <<nproc, out, nops, data, hfiles, pc, bcast, mpiroot, coldata, calls>>

\* stack.size, other.cslice(*req) before the extend
SizeBeforeExtend == last.op # "extend" /\ SizeStack

CsliceOtherBeforeExtend == last.op # "extend" /\ CsliceOther

NextExtend ==
    ColumnsStack \/ HeaderStack \/ SizeBeforeExtend \/ CsliceOtherBeforeExtend \/ Extend

SpecExtend == InitExtend /\ [][NextExtend]_vars

(***************************************************************************)
(* C12.  extend is the in-place form of concatenate: after stack.extend(o)  *)
(* the files, the partitions, size and csize, the columns and the header of *)
(* the stack are those of concatenate(stack, o) computed from the states    *)
(* before the call; a columns value cached before is not returned stale.    *)
(***************************************************************************)
C12_ExtendIsConcatenate ==
    last.op = "extend" =>
        LET new == Fresh(concatenate(last.pre, last.oth))
        IN  /\ stack.files = new.files
            /\ \A r \in Ranks :
                   /\ slices(stack, r) = slices(new, r)
                   /\ size(stack, r) = size(new, r)
            /\ csize(stack) = csize(new)
            /\ columns(stack) = columns(new)
            /\ header(stack) = header(new)

\* the same but for the columns
ExtendIsConcatenateButColumns ==
    last.op = "extend" =>
        LET new == Fresh(concatenate(last.pre, last.oth))
        IN  /\ stack.files = new.files
            /\ \A r \in Ranks :
                   /\ slices(stack, r) = slices(new, r)
                   /\ size(stack, r) = size(new, r)
            /\ csize(stack) = csize(new)
            /\ header(stack) = header(new)

\* the columns too when they were not cached before the extend
ExtendIsConcatenateWhereNotCached ==
    (last.op = "extend" /\ ~last.pre.cols.set) =>
        columns(stack) = columns(Fresh(concatenate(last.pre, last.oth)))

(***************************************************************************)
(* C14.  Visible column set: FileStack.columns lists exactly the column     *)
(* names that every file has, in the order of the first file; a file that   *)
(* lacks a column removes it; a stack without file has no column.           *)
(***************************************************************************)
\* whether seq lists, in the order of the first file, the names every file has
IsVisibleColumnSet(seq, files) ==
    IF files = << >> THEN seq = << >>
    ELSE /\ Elems(seq) = {c \in {"X", "Y"} : \A k \in 1..Len(files) : c \in Elems(files[k].columns)}
         /\ \A i, j \in 1..Len(seq) : i < j =>
                \E a, b \in 1..Len(files[1].columns) :
                    a < b /\ files[1].columns[a] = seq[i] /\ files[1].columns[b] = seq[j]

C14_VisibleColumns == IsVisibleColumnSet(columns(stack), stack.files)

\* the same as long as no extend has kept a _columns cached before it
VisibleColumnsWhereNotStale ==
    ~(last.op = "extend" /\ last.pre.cols.set) =>
        IsVisibleColumnSet(columns(stack), stack.files)

\* a stack of two files lists "Y" alone, its second file lacking "X"
SecondFileLacksX ==
    /\ last.op = "init"
    /\ Len(stack.files) = 2
    /\ stack.files[1].columns = <<"X", "Y">>
    /\ stack.files[2].columns = <<"Y">>
    /\ stack.cols.set
    /\ columns(stack) = <<"Y">>

====
